---- MODULE Spec2Model ----
(***************************************************************************)
(* A model of the start-fastapi CRUD service (app/main.py, app/models.py). *)
(*                                                                         *)
(* Two tables, users and todos, are owned by the storage engine.  Each     *)
(* HTTP request is handled by its own task; a task is received, its input  *)
(* is validated by the pydantic models, its single SQL statement runs at   *)
(* the storage (the await in the handler), and the handler then maps the   *)
(* outcome of the statement to a response.  Tasks interleave at the await. *)
(***************************************************************************)
EXTENDS Integers, Sequences, FiniteSets, TLC

(* ---------------------------------------------------------------- bounds *)
\* Path ids and storage-assigned ids range over 0..MaxId.
MaxId == 1
\* Number of requests received in one behaviour.
MaxRequests == 3

Ids == 0..MaxId
\* The event loop runs the handlers of two requests at a time.
Tasks == {"t1", "t2"}
Resources == {"users", "todos"}
\* Texts of the exceptions the storage driver raises.
ErrTexts == {"connection lost", "constraint violated"}

\* users, todos : the two tables, each the set of its rows
\* task         : per task, the request it handles: its phase, the validated
\*                input, what the storage call gave (out), its responses,
\*                and a record of the moment its statement ran: the row of
\*                the id before it (pre), the last effect on the id before
\*                it (seen), whether the table changed (changed), whether
\*                every other row was left alone (frame), whether another
\*                update of the same row was in flight (conc)
\* hist         : per table and id, the last statement that had an effect
\*                on the row of that id, with its input
\* nreq         : the number of requests received so far
\* focus        : the table the requests of this behaviour address; every
\*                statement names one table, so statements on different
\*                tables commute and each table is explored on its own
\* fb           : a Feedback being validated (models.py), used by SpecFeedback
VARIABLES users, todos, task, hist, nreq, focus, fb

vars == <<users, todos, task, hist, nreq, focus, fb>>

(* ------------------------------------------------------ models (pydantic) *)
\* Request bodies as the client sends them: JSON objects, some of them
\* lacking a required field, some lacking a field that has a default.
UserBodies ==
  {[username |-> "a", email |-> "x"],
   [username |-> "b", email |-> "y"],
   [username |-> "a"]}

TodoBodies ==
  {[title |-> "a", description |-> "d", is_complited |-> TRUE],
   [title |-> "b", description |-> "e"],
   [title |-> "a"]}

\* UserCreate(UserBase): username and email are required.
UserCreate(body) ==
  IF {"username", "email"} \subseteq DOMAIN body
    THEN [ok |-> TRUE,
          v |-> [username |-> body.username, email |-> body.email]]
    ELSE [ok |-> FALSE]

\* Todo: title and description are required, is_complited defaults to False.
Todo(body) ==
  IF {"title", "description"} \subseteq DOMAIN body
    THEN [ok |-> TRUE,
          v |-> [title |-> body.title, description |-> body.description,
                 is_complited |-> IF "is_complited" \in DOMAIN body
                                    THEN body.is_complited ELSE FALSE]]
    ELSE [ok |-> FALSE]

\* UserReturn(id=..., **fields): the output record.
UserReturn(id, f) ==
  [id |-> id, username |-> f.username, email |-> f.email]

\* TodoReturn(id=..., **fields).
TodoReturn(id, f) ==
  [id |-> id, title |-> f.title, description |-> f.description,
   is_complited |-> f.is_complited]

(* --------------------------------------------------------- python values *)
PyNone == [t |-> "None"]
PyInt(v) == [t |-> "int", v |-> v]
PyRecord(row) == [t |-> "Record", v |-> row]
PyRaise(text) == [t |-> "raise", text |-> text]

\* Python truth of a value a statement returns: `not result` is true of
\* PyNone and of the integer 0; a fetched Record has columns and is true.
Truthy(x) ==
  CASE x.t = "None" -> FALSE
    [] x.t = "int" -> x.v # 0
    [] x.t = "Record" -> TRUE

(* ------------------------------------------------------ the SQL statements *)
\* A table is the set of its rows; id is the primary key.
RowIds(tbl) == {r.id : r \in tbl}
RowOf(tbl, id) == CHOOSE r \in tbl : r.id = id
NoRow == [absent |-> TRUE]
Lookup(tbl, id) == IF id \in RowIds(tbl) THEN RowOf(tbl, id) ELSE NoRow

\* A variant of InsertUser that binds the two values to the wrong columns.
InsertUserSwapped(tbl, values, newid) ==
  [tbl |-> tbl \cup {[id |-> newid, username |-> values.email,
                      email |-> values.username]},
   out |-> PyInt(newid)]

\* INSERT INTO users (username, email) VALUES (:username, :email)
\* RETURNING id; the storage assigns newid.
InsertUser(tbl, values, newid) ==
  [tbl |-> tbl \cup {[id |-> newid, username |-> values.username,
                      email |-> values.email]},
   out |-> PyInt(newid)]

\* SELECT id, username, email FROM users WHERE id = :user_id
SelectUser(tbl, id) ==
  [tbl |-> tbl,
   out |-> IF id \in RowIds(tbl) THEN PyRecord(RowOf(tbl, id)) ELSE PyNone]

\* UPDATE users SET username = :username, email = :email
\* WHERE id = :user_id RETURNING id
UpdateUser(tbl, id, values) ==
  [tbl |-> {IF r.id = id
              THEN [r EXCEPT !.username = values.username,
                             !.email = values.email]
              ELSE r : r \in tbl},
   out |-> IF id \in RowIds(tbl) THEN PyInt(id) ELSE PyNone]

\* A variant of DeleteUser that yields the id whether or not a row matched.
DeleteUserReturnsId(tbl, id) ==
  [tbl |-> {r \in tbl : r.id # id}, out |-> PyInt(id)]

\* DELETE FROM users WHERE id = :user_id RETURNING id
DeleteUser(tbl, id) ==
  [tbl |-> {r \in tbl : r.id # id},
   out |-> IF id \in RowIds(tbl) THEN PyInt(id) ELSE PyNone]

\* INSERT INTO todos(title, description, is_complited) VALUES (...)
\* RETURNING id
InsertTodo(tbl, values, newid) ==
  [tbl |-> tbl \cup {[id |-> newid, title |-> values.title,
                      description |-> values.description,
                      is_complited |-> values.is_complited]},
   out |-> PyInt(newid)]

\* SELECT id, title, description, is_complited FROM todos WHERE id = :todo_id
SelectTodo(tbl, id) ==
  [tbl |-> tbl,
   out |-> IF id \in RowIds(tbl) THEN PyRecord(RowOf(tbl, id)) ELSE PyNone]

\* A variant of UpdateTodo whose SET clause leaves is_complited out.
UpdateTodoKeepsFlag(tbl, id, values) ==
  [tbl |-> {IF r.id = id
              THEN [r EXCEPT !.title = values.title,
                             !.description = values.description]
              ELSE r : r \in tbl},
   out |-> IF id \in RowIds(tbl) THEN PyInt(id) ELSE PyNone]

\* UPDATE todos SET title = :title, description = :description,
\* is_complited = :is_complited WHERE id = :todo_id RETURNING id
UpdateTodo(tbl, id, values) ==
  [tbl |-> {IF r.id = id
              THEN [r EXCEPT !.title = values.title,
                             !.description = values.description,
                             !.is_complited = values.is_complited]
              ELSE r : r \in tbl},
   out |-> IF id \in RowIds(tbl) THEN PyInt(id) ELSE PyNone]

\* A variant of DeleteTodo without its WHERE clause.
DeleteTodoNoWhere(tbl, id) ==
  [tbl |-> {}, out |-> IF id \in RowIds(tbl) THEN PyInt(id) ELSE PyNone]

\* DELETE FROM todos WHERE id = :todo_id RETURNING id
DeleteTodo(tbl, id) ==
  [tbl |-> {r \in tbl : r.id # id},
   out |-> IF id \in RowIds(tbl) THEN PyInt(id) ELSE PyNone]

(* ------------------------------------------------------------- responses *)
Ok(body) == [status |-> 200, body |-> body]
NotFound(detail) == [status |-> 404, detail |-> detail]
Internal(prefix, text) == [status |-> 500, detail |-> <<prefix, text>>]
Unprocessable == [status |-> 422]

\* GET /
read_root == Ok("message: " :> "Hello, World!")

\* The part of each handler that follows its await: out is what
\* database.execute / database.fetch_one returned or raised.
create_user(user, out) ==
  IF out.t = "raise"
    THEN Internal("create_user", out.text)
    ELSE Ok(UserReturn(out.v, user))

get_user(out) ==
  IF out.t = "raise"
    THEN Internal("get_user", out.text)
    ELSE IF ~Truthy(out)
      THEN NotFound("user not found")
      ELSE Ok(UserReturn(out.v.id, out.v))

update_user(user, out) ==
  IF out.t = "raise"
    THEN Internal("update_user", out.text)
    ELSE IF ~Truthy(out)
      THEN NotFound("user not found")
      ELSE Ok(UserReturn(out.v, user))

delete_user(out) ==
  IF out.t = "raise"
    THEN Internal("delete_user", out.text)
    ELSE IF ~Truthy(out)
      THEN NotFound("user not found")
      ELSE Ok([message |-> "user deleted"])

create_todo(todo, out) ==
  IF out.t = "raise"
    THEN Internal("create_todo", out.text)
    ELSE Ok(TodoReturn(out.v, todo))

\* A variant of get_todo that answers a storage error as a missing row.
get_todo_swallows(out) ==
  IF out.t = "raise" \/ ~Truthy(out)
    THEN NotFound("todo not found")
    ELSE Ok(TodoReturn(out.v.id, out.v))

get_todo(out) ==
  IF out.t = "raise"
    THEN Internal("get_todo", out.text)
    ELSE IF ~Truthy(out)
      THEN NotFound("todo not found")
      ELSE Ok(TodoReturn(out.v.id, out.v))

update_todo(todo, out) ==
  IF out.t = "raise"
    THEN Internal("update_todo", out.text)
    ELSE IF ~Truthy(out)
      THEN NotFound("todo not found")
      ELSE Ok(TodoReturn(out.v, todo))

delete_todo(out) ==
  IF out.t = "raise"
    THEN Internal("delete_todo", out.text)
    ELSE IF ~Truthy(out)
      THEN NotFound("todo not found")
      ELSE Ok([message |-> "todo deleted"])

(* ------------------------------------------- Feedback.message (pydantic) *)
\* A text is a sequence of Unicode code points.
\* Field(min_length=10, max_length=500)
MessageMinLength == 10
MessageMaxLength == 500

\* Case folding of re.IGNORECASE for the characters of the messages:
\* Latin and Cyrillic capitals map to their small letters.
Fold(c) ==
  IF (c >= 65 /\ c <= 90) \/ (c >= 1040 /\ c <= 1071) THEN c + 32
  ELSE IF c = 1025 THEN 1105
  ELSE c

\* The literal parts of the alternatives of the pattern.
Stems ==
  {<<1088, 1077, 1076, 1080, 1089, 1082>>,
   <<1073, 1103, 1082>>,
   <<1082, 1086, 1079, 1103, 1074, 1082>>}

\* The class [а-я] under (?i): a character whose folded form lies in
\* U+0430..U+044F.
InClass(c) == Fold(c) >= 1072 /\ Fold(c) <= 1103

\* One alternative of the pattern, stem[а-я], matches data at position i.
MatchesAt(data, i, stem) ==
  /\ i + Len(stem) <= Len(data)
  /\ \A k \in 1..Len(stem) : Fold(data[i + k - 1]) = stem[k]
  /\ InClass(data[i + Len(stem)])

\* re.findall(pattern, data) is not empty.
FindAll(data) ==
  \E i \in 1..Len(data) : \E stem \in Stems : MatchesAt(data, i, stem)

\* @field_validator('message', mode='after')
validate_message(data) ==
  IF FindAll(data) THEN "bad_words" ELSE "accepted"

\* The message field: the length bounds, then the validator.
Feedback_message(data) ==
  IF Len(data) < MessageMinLength THEN "too_short"
  ELSE IF Len(data) > MessageMaxLength THEN "too_long"
  ELSE validate_message(data)

(* ------------------------------------------------------------- requests *)
Requests ==
  {[op |-> "root"]}
    \cup [op : {"create"}, res : {"users"}, body : UserBodies]
    \cup [op : {"create"}, res : {"todos"}, body : TodoBodies]
    \cup [op : {"read", "delete"}, res : Resources, id : Ids]
    \cup [op : {"update"}, res : {"users"}, id : Ids, body : UserBodies]
    \cup [op : {"update"}, res : {"todos"}, id : Ids, body : TodoBodies]

HasBody(req) == req.op \in {"create", "update"}
HasId(req) == req.op \in {"read", "update", "delete"}

\* The body parameter of the handler: `user: UserCreate`, `todo: Todo`.
BodyModel(req) ==
  IF req.res = "users" THEN UserCreate(req.body) ELSE Todo(req.body)

Table(res) == IF res = "users" THEN users ELSE todos

\* The statement a handler sends to the storage, applied to the table of
\* its resource: the new table and what the call returns.
Statement(req, valid, tbl, newid) ==
  CASE req.op = "create" /\ req.res = "users" -> InsertUser(tbl, valid, newid)
    [] req.op = "read" /\ req.res = "users" -> SelectUser(tbl, req.id)
    [] req.op = "update" /\ req.res = "users" -> UpdateUser(tbl, req.id, valid)
    [] req.op = "delete" /\ req.res = "users" -> DeleteUser(tbl, req.id)
    [] req.op = "create" /\ req.res = "todos" -> InsertTodo(tbl, valid, newid)
    [] req.op = "read" /\ req.res = "todos" -> SelectTodo(tbl, req.id)
    [] req.op = "update" /\ req.res = "todos" -> UpdateTodo(tbl, req.id, valid)
    [] req.op = "delete" /\ req.res = "todos" -> DeleteTodo(tbl, req.id)

\* The response a handler produces from what its storage call gave.
Handler(req, valid, out) ==
  CASE req.op = "create" /\ req.res = "users" -> create_user(valid, out)
    [] req.op = "read" /\ req.res = "users" -> get_user(out)
    [] req.op = "update" /\ req.res = "users" -> update_user(valid, out)
    [] req.op = "delete" /\ req.res = "users" -> delete_user(out)
    [] req.op = "create" /\ req.res = "todos" -> create_todo(valid, out)
    [] req.op = "read" /\ req.res = "todos" -> get_todo(out)
    [] req.op = "update" /\ req.res = "todos" -> update_todo(valid, out)
    [] req.op = "delete" /\ req.res = "todos" -> delete_todo(out)

\* A variant of PhaseAfterRaise: the handler sends its statement again.
PhaseRetry == "validated"

\* Where a handler stands once its storage call has raised: the except
\* clause raises HTTPException, the statement is not sent again.
PhaseAfterRaise == "executed"

(* ------------------------------------------------------------ the state  *)
Idle == [phase |-> "idle"]
NoEffect == [kind |-> "none"]
NoBody == [nobody |-> TRUE]

Init ==
  /\ users = {}
  /\ todos = {}
  /\ task = [t \in Tasks |-> Idle]
  /\ hist = [r \in Resources |-> [i \in Ids |-> NoEffect]]
  /\ nreq = 0
  /\ focus \in Resources
  /\ fb = [phase |-> "none"]

\* The HTTP layer hands a request to a free task.
Receive(t) ==
  /\ task[t].phase = "idle"
  /\ nreq < MaxRequests
  /\ \E req \in Requests :
       /\ req.op # "root" => req.res = focus
       /\ task' = [task EXCEPT ![t] =
                    [phase |-> "received", req |-> req,
                     path |-> <<"received">>, stmts |-> 0, resps |-> <<>>]]
  /\ nreq' = nreq + 1
  /\ UNCHANGED <<users, todos, hist, focus, fb>>

\* The request body is parsed into the handler's model; a body the model
\* rejects is answered 422 and the handler never runs.
Validate(t) ==
  /\ task[t].phase = "received"
  /\ LET s == task[t]
         m == IF HasBody(s.req) THEN BodyModel(s.req)
                                ELSE [ok |-> TRUE, v |-> NoBody]
     IN task' = [task EXCEPT ![t] =
          IF m.ok
            THEN [s EXCEPT !.phase = "validated",
                           !.path = Append(@, "validated")]
                   @@ [valid |-> m.v]
            ELSE [s EXCEPT !.phase = "responded",
                           !.path = Append(@, "responded"),
                           !.resps = Append(@, Unprocessable)]]
  /\ UNCHANGED <<users, todos, hist, nreq, focus, fb>>

\* GET / has no storage call: the handler returns its body.
ReadRoot(t) ==
  /\ task[t].phase = "validated"
  /\ task[t].req.op = "root"
  /\ task' = [task EXCEPT ![t] =
       [@ EXCEPT !.phase = "responded",
                 !.path = Append(@, "responded"),
                 !.resps = Append(@, read_root)]]
  /\ UNCHANGED <<users, todos, hist, nreq, focus, fb>>

\* Task u holds, received and not yet answered, another update of the row
\* that the update req addresses.
Races(u, req) ==
  /\ task[u].phase \in {"received", "validated", "executed"}
  /\ req.op = "update"
  /\ task[u].req.op = "update"
  /\ task[u].req.res = req.res
  /\ task[u].req.id = req.id

\* What the statement of s does to the history of the ids of its table.
Effect(s, t, tbl, newid) ==
  CASE s.req.op = "create" ->
         [hist[s.req.res] EXCEPT ![newid] =
            [kind |-> "create", inp |-> s.valid]]
    [] s.req.op = "update" /\ s.req.id \in RowIds(tbl) ->
         [hist[s.req.res] EXCEPT ![s.req.id] =
            [kind |-> "update", inp |-> s.valid]]
    [] s.req.op = "delete" /\ s.req.id \in RowIds(tbl) ->
         [hist[s.req.res] EXCEPT ![s.req.id] = [kind |-> "delete"]]
    [] OTHER -> hist[s.req.res]

\* The await in the handler: the storage runs the statement.  An INSERT
\* gets an id no row of the table has (the primary key); which one is the
\* storage's choice, the handlers assume nothing about it.
Execute(t) ==
  /\ task[t].phase = "validated"
  /\ task[t].req.op # "root"
  /\ LET s == task[t]
         tbl == Table(s.req.res)
     IN \E newid \in Ids :
          /\ s.req.op = "create" => newid \notin RowIds(tbl)
          /\ s.req.op # "create" => newid = 0
          /\ LET r == Statement(s.req, s.valid, tbl, newid)
                 target == IF s.req.op = "create" THEN newid ELSE s.req.id
             IN /\ users' = IF s.req.res = "users" THEN r.tbl ELSE users
                /\ todos' = IF s.req.res = "todos" THEN r.tbl ELSE todos
                /\ hist' = [hist EXCEPT ![s.req.res] = Effect(s, t, tbl, newid)]
                /\ task' = [task EXCEPT ![t] =
                     [s EXCEPT !.phase = "executed",
                               !.path = Append(@, "executed"),
                               !.stmts = @ + 1]
                       @@ [out |-> r.out,
                           pre |-> Lookup(tbl, target),
                           seen |-> hist[s.req.res][target],
                           changed |-> r.tbl # tbl,
                           frame |-> \A i \in Ids \ {target} :
                                       Lookup(r.tbl, i) = Lookup(tbl, i),
                           conc |-> \E u \in Tasks \ {t} : Races(u, s.req)]]
  /\ UNCHANGED <<nreq, focus, fb>>

\* The await in the handler: the storage raises; the statement has no effect.
ExecuteFails(t) ==
  /\ task[t].phase = "validated"
  /\ task[t].req.op # "root"
  /\ LET s == task[t]
         target == IF s.req.op = "create" THEN 0 ELSE s.req.id
     IN \E e \in ErrTexts :
          task' = [task EXCEPT ![t] =
            [s EXCEPT !.phase = PhaseAfterRaise,
                      !.path = Append(@, "executed"),
                      !.stmts = @ + 1]
              @@ [out |-> PyRaise(e),
                  pre |-> Lookup(Table(s.req.res), target),
                  seen |-> hist[s.req.res][target],
                  changed |-> FALSE,
                  frame |-> TRUE,
                  conc |-> \E u \in Tasks \ {t} : Races(u, s.req)]]
  /\ UNCHANGED <<users, todos, hist, nreq, focus, fb>>

\* The handler resumes after the await and returns or raises its response.
Respond(t) ==
  /\ task[t].phase = "executed"
  /\ LET s == task[t]
     IN task' = [task EXCEPT ![t] =
          [s EXCEPT !.phase = "responded",
                    !.path = Append(@, "responded"),
                    !.resps = Append(@, Handler(s.req, s.valid, s.out))]]
  /\ UNCHANGED <<users, todos, hist, nreq, focus, fb>>

\* The response is sent and the task ends.
Close(t) ==
  /\ task[t].phase = "responded"
  /\ task' = [task EXCEPT ![t] = Idle]
  /\ UNCHANGED <<users, todos, hist, nreq, focus, fb>>

Next ==
  \E t \in Tasks :
    \/ Receive(t)
    \/ Validate(t)
    \/ ReadRoot(t)
    \/ Execute(t)
    \/ ExecuteFails(t)
    \/ Respond(t)
    \/ Close(t)

Spec == Init /\ [][Next]_vars

(* ------------------------------------------------------------ properties *)
\* The statement of the request in s has been sent to the storage.
Executed(s) == "out" \in DOMAIN s
\* ... and the storage ran it without raising.
Ran(s) == Executed(s) /\ s.out.t # "raise"
Responded(s) == s.phase = "responded"
Resp(s) == s.resps[Len(s.resps)]
\* The output record the spec describes: the input fields plus the id.
Expected(id, inp) == [id |-> id] @@ inp

\* C1: read, update and delete on an id for which no row exists respond
\* NotFound (404), never 500 and never success, when the storage statement
\* itself does not fail; for users and for todos.
C1_MissingIdIsNotFound ==
  \A t \in Tasks :
    LET s == task[t] IN
      (/\ Responded(s)
       /\ s.req.op \in {"read", "update", "delete"}
       /\ Ran(s)
       /\ s.pre = NoRow)
        => /\ Len(s.resps) = 1
           /\ Resp(s).status = 404

\* An update and a delete on absent ids are both answered 404.
C1_Witness ==
  /\ Responded(task["t1"]) /\ Responded(task["t2"])
  /\ task["t1"].req.op = "update" /\ task["t2"].req.op = "delete"
  /\ Ran(task["t1"]) /\ Ran(task["t2"])
  /\ task["t1"].pre = NoRow /\ task["t2"].pre = NoRow
  /\ Resp(task["t1"]).status = 404 /\ Resp(task["t2"]).status = 404

\* C2: a create answers with its input fields and the id the storage
\* gave, and a read of an id whose last statement was that create (no
\* other statement touched the id in between) answers with a record equal
\* to the create input plus that id.
C2_CreateThenRead ==
  \A t \in Tasks :
    LET s == task[t] IN
      /\ (Responded(s) /\ s.req.op = "create" /\ Ran(s))
           => Resp(s) = Ok(Expected(s.out.v, s.valid))
      /\ (Responded(s) /\ s.req.op = "read" /\ Ran(s)
            /\ s.seen.kind = "create")
           => Resp(s) = Ok(Expected(s.req.id, s.seen.inp))

\* A read of id 0 right after the create that returned 0 is answered 200.
C2_Witness ==
  \E t \in Tasks :
    LET s == task[t] IN
      /\ Responded(s) /\ s.req.op = "read" /\ Ran(s)
      /\ s.seen.kind = "create"
      /\ s.req.id = 0
      /\ Resp(s).status = 200

\* C3: a read of an id whose last statement was an update answers with
\* exactly the fields of that update's input and the same id; a successful
\* update answers with the path id and its input fields; an update changes
\* no row with another id.
C3_UpdateThenRead ==
  \A t \in Tasks :
    LET s == task[t] IN
      /\ (Responded(s) /\ s.req.op = "read" /\ Ran(s)
            /\ s.seen.kind = "update")
           => Resp(s) = Ok(Expected(s.req.id, s.seen.inp))
      /\ (Responded(s) /\ s.req.op = "update" /\ Executed(s)
            /\ Resp(s).status = 200)
           => Resp(s).body = Expected(s.req.id, s.valid)
      /\ (Executed(s) /\ s.req.op = "update") => s.frame

\* A read answered 200 after an update that replaced every field of a todo.
C3_Witness ==
  \E t \in Tasks :
    LET s == task[t] IN
      /\ Responded(s) /\ s.req.op = "read" /\ s.req.res = "todos" /\ Ran(s)
      /\ s.seen.kind = "update"
      /\ s.seen.inp.is_complited = FALSE
      /\ Resp(s).status = 200

\* C4: once a delete has removed the row of an id, a read, update or delete
\* of that id is never answered with success, and is answered 404 whenever
\* its statement runs, until a create returns the id again; a delete
\* removes no row with another id.
C4_DeletedStaysNotFound ==
  \A t \in Tasks :
    LET s == task[t] IN
      /\ (Responded(s) /\ s.req.op \in {"read", "update", "delete"}
            /\ Executed(s) /\ s.seen.kind = "delete")
           => /\ Resp(s).status # 200
              /\ Ran(s) => Resp(s).status = 404
      /\ (Executed(s) /\ s.req.op = "delete") => s.frame

\* A delete answered with success, and a later read of the id it removed
\* answered 404.
C4_Witness ==
  \E t, u \in Tasks :
    LET s == task[t]
        o == task[u]
    IN /\ Responded(o) /\ o.req.op = "delete" /\ Ran(o)
       /\ Resp(o).status = 200
       /\ Responded(s) /\ s.req.op = "read" /\ Ran(s)
       /\ s.req.res = o.req.res /\ s.req.id = o.req.id
       /\ s.seen.kind = "delete"
       /\ Resp(s).status = 404

\* C5: in each of the eight resource operations, a storage call that
\* raises is answered 500 with the text of the error in the detail, never
\* 404 and never a success body.
C5_StorageErrorIsInternal ==
  \A t \in Tasks :
    LET s == task[t] IN
      (Responded(s) /\ Executed(s) /\ s.out.t = "raise")
        => /\ Len(s.resps) = 1
           /\ Resp(s).status = 500
           /\ Resp(s).detail[2] = s.out.text

\* A read of a todo that exists and an update, both failing at the storage.
C5_Witness ==
  /\ Responded(task["t1"]) /\ Responded(task["t2"])
  /\ Executed(task["t1"]) /\ Executed(task["t2"])
  /\ task["t1"].req.op = "read" /\ task["t1"].req.res = "todos"
  /\ task["t1"].pre # NoRow
  /\ task["t2"].req.op = "update"
  /\ task["t1"].out.t = "raise" /\ task["t2"].out.t = "raise"
  /\ Resp(task["t1"]).status = 500 /\ Resp(task["t2"]).status = 500

FullPath == <<"received", "validated", "executed", "responded">>

\* C6: a request moves forward through received, validated, executed and
\* responded (a body the model rejects is answered 422 from received), it
\* has exactly one response once responded and none before, and it has
\* sent at most one statement: exactly one when it passed executed, also
\* when the storage raised.
C6_OneStatementOneResponse ==
  \A t \in Tasks :
    LET s == task[t] IN
      s.phase # "idle" =>
        /\ s.stmts <= 1
        /\ CASE s.phase = "received" ->
                  s.path = SubSeq(FullPath, 1, 1) /\ s.stmts = 0 /\ s.resps = <<>>
             [] s.phase = "validated" ->
                  s.path = SubSeq(FullPath, 1, 2) /\ s.stmts = 0 /\ s.resps = <<>>
             [] s.phase = "executed" ->
                  s.path = SubSeq(FullPath, 1, 3) /\ s.stmts = 1 /\ s.resps = <<>>
             [] s.phase = "responded" ->
                  /\ Len(s.resps) = 1
                  /\ Resp(s).status \in {200, 404, 422, 500}
                  /\ CASE Resp(s).status = 422 ->
                            s.path = <<"received", "responded">> /\ s.stmts = 0
                       [] Resp(s).status # 422 /\ s.req.op = "root" ->
                            /\ s.path = <<"received", "validated", "responded">>
                            /\ s.stmts = 0
                       [] OTHER -> s.path = FullPath /\ s.stmts = 1

\* A request whose only statement failed, answered once.
C6_Witness ==
  \E t \in Tasks :
    LET s == task[t] IN
      /\ Responded(s) /\ Executed(s) /\ s.out.t = "raise"
      /\ s.stmts = 1 /\ Len(s.resps) = 1 /\ s.path = FullPath

\* C7: two update requests on the same existing id that are in flight
\* together, whose statements both run: both respond success, the stored
\* row equals in all its fields the input of the update whose statement
\* ran last, and no row with another id changes.
C7_LastWriteWins ==
  \A t, u \in Tasks :
    LET s == task[t]
        o == task[u]
    IN (/\ t # u
        /\ Ran(s) /\ Ran(o)
        /\ s.req.op = "update" /\ o.req.op = "update"
        /\ s.req.res = o.req.res /\ s.req.id = o.req.id
        /\ s.conc \/ o.conc
        /\ s.pre # NoRow /\ o.pre # NoRow)
         => /\ Responded(s) => Resp(s).status = 200
            /\ hist[s.req.res][s.req.id].kind = "update"
            /\ hist[s.req.res][s.req.id].inp \in {s.valid, o.valid}
            /\ Lookup(Table(s.req.res), s.req.id) =
                 Expected(s.req.id, hist[s.req.res][s.req.id].inp)
            /\ s.frame

\* C9: GET / responds with a body whose single key is message, with the
\* value "Hello, World!".
C9_RootBody ==
  \A t \in Tasks :
    LET s == task[t] IN
      (Responded(s) /\ s.req.op = "root" /\ Resp(s).status # 422)
        => /\ Resp(s).status = 200
           /\ DOMAIN Resp(s).body = {"message"}
           /\ Resp(s).body["message"] = "Hello, World!"

\* C10: an update or delete that responds 404 or 500 has changed no stored
\* row, and one whose statement matched an existing row never responds 404.
C10_ErrorsChangeNothing ==
  \A t \in Tasks :
    LET s == task[t] IN
      (Responded(s) /\ s.req.op \in {"update", "delete"} /\ Executed(s))
        => /\ Resp(s).status \in {404, 500} => ~s.changed
           /\ (Ran(s) /\ s.pre # NoRow) => Resp(s).status # 404

(* --------------------------------------------- validating a Feedback only *)
\* Longest run of filler characters put before a word.
MaxPad == 8

RECURSIVE Pad(_)
Pad(n) == IF n = 0 THEN <<>> ELSE <<120>> \o Pad(n - 1)

\* Words: the three stems in small letters, one in capitals and one in
\* mixed case, and a word that holds no stem.
Words ==
  Stems \cup {<<1041, 1071, 1050>>, <<1073, 1071, 1082>>, <<1073, 1103, 1083>>}

\* What follows the word: nothing, a small or a capital Cyrillic letter,
\* the letter U+0451, a punctuation mark, a space and a Latin letter.
Tails == {<<>>, <<1072>>, <<1048>>, <<1105>>, <<33>>, <<32, 120>>}

Messages ==
  {Pad(n) \o w \o tl \o Pad(m) : n \in 0..MaxPad, m \in 0..1,
                                 w \in Words, tl \in Tails}

InitFeedback ==
  /\ users = {}
  /\ todos = {}
  /\ task = [t \in Tasks |-> Idle]
  /\ hist = [r \in Resources |-> [i \in Ids |-> NoEffect]]
  /\ nreq = 0
  /\ focus = "users"
  /\ fb \in [phase : {"input"}, message : Messages]

\* A Feedback is built from the input: the message field is validated.
ValidateFeedback ==
  /\ fb.phase = "input"
  /\ fb' = [phase |-> "validated", message |-> fb.message,
            result |-> Feedback_message(fb.message)]
  /\ UNCHANGED <<users, todos, task, hist, nreq, focus>>

NextFeedback == ValidateFeedback

SpecFeedback == InitFeedback /\ [][NextFeedback]_vars

\* The message holds one of the stems, in any case, at any position.
ContainsStem(data) ==
  \E i \in 1..Len(data) : \E stem \in Stems :
    /\ i + Len(stem) - 1 <= Len(data)
    /\ \A k \in 1..Len(stem) : Fold(data[i + k - 1]) = stem[k]

\* C8: a message that holds a blocklisted stem (in any case, anywhere,
\* also at its very end or before a non-letter) is rejected, a message of
\* 9 characters is rejected, and a message of exactly 10 characters with
\* no stem is accepted.
C8_FeedbackMessage ==
  fb.phase = "validated" =>
    /\ ContainsStem(fb.message) => fb.result # "accepted"
    /\ Len(fb.message) = 9 => fb.result # "accepted"
    /\ (Len(fb.message) = 10 /\ ~ContainsStem(fb.message))
         => fb.result = "accepted"

====
